---- MODULE Spec2Model ----
(***************************************************************************)
(* A model of kickstart's Template::generate (src/src/template.rs):        *)
(* ask_questions builds the answers, the walk over the template directory  *)
(* renders or copies every entry into the output directory, and the        *)
(* cleanup loop deletes the paths of the rules the answers trigger.        *)
(*                                                                         *)
(* Strings and byte buffers are sequences of symbols.  A symbol is one     *)
(* piece of text: a file-name component ("s", "a"), a separator ("/",      *)
(* "."), a glob wildcard ("*"), a template reference ("{{x}}"), a NUL byte *)
(* ("NUL") or a byte that is not valid UTF-8 ("xFF").                      *)
(***************************************************************************)
EXTENDS Integers, Sequences, FiniteSets, TLC

VARIABLES
    definition,   \* the parsed TemplateDefinition
    template,     \* the template directory: entries and unreadable directories
    fs,           \* the filesystem under (and including) the output directory
    pc,           \* the phase generate is in
    outcome,      \* "running", "ok" (Ok(())), "err" (Err(..)) or "panic"
    errKind,      \* the ErrorKind of an "err" outcome
    vals,         \* ask_questions' HashMap<String, Value>
    vi,           \* index of the variable ask_questions looks at next
    walker,       \* the items WalkDir yields after filter_entry
    wi,           \* index of the next item of walker
    ci,           \* index of the cleanup rule looked at next
    cp,           \* index of the next path of that rule
    prompted,     \* history: indices of the variables a prompt was issued for
    condSeen,     \* history: what the only_if lookup found for each variable
    unsupported,  \* history: indices of variables dispatched on an unsupported tag
    rootCreated,  \* history: generate created the output root
    emitted,      \* history: template paths whose destination was written
    rendered,     \* history: template paths whose content went through Tera
    decodeFailed, \* history: template paths whose bytes failed str::from_utf8
    deleted,      \* history: <<rule, path index>> pairs whose target was removed
    failed,       \* history: some step of generate has failed
    orphan        \* history: a write was attempted under a missing parent

vars == <<definition, template, fs, pc, outcome, errKind, vals, vi, walker, wi,
          ci, cp, prompted, condSeen, unsupported, rootCreated, emitted,
          rendered, decodeFailed, deleted, failed, orphan>>

\* Longest list of variables a definition declares.
MaxVars == 2

(***************************************************************************)
(* toml::Value: a tag and a payload (the payload is kept as text so that   *)
(* values of different tags compare unequal instead of being incomparable) *)
(***************************************************************************)
VBool(b) == [tag |-> "Boolean", v |-> b]
VStr(s) == [tag |-> "String", v |-> s]
VInt(i) == [tag |-> "Integer", v |-> i]
VFloat(f) == [tag |-> "Float", v |-> f]

\* Option<T>: <<>> is None, <<t>> is Some(t).
None == <<>>
Some(t) == <<t>>
IsSome(o) == o # <<>>
Unwrap(o) == o[1]

Range(s) == {s[k] : k \in 1..Len(s)}

\* HashMap::insert
Insert(m, k, v) == [n \in DOMAIN m \cup {k} |-> IF n = k THEN v ELSE m[n]]

\* The empty HashMap.
EmptyMap == [n \in {} |-> VBool("false")]


(***************************************************************************)
(* Strings and paths                                                       *)
(***************************************************************************)
\* str::starts_with
StartsWith(s, pre) == Len(pre) <= Len(s) /\ SubSeq(s, 1, Len(pre)) = pre

\* Position of the last separator of a path, 0 when it has none.
LastSlash(p) ==
    LET at == {k \in 1..Len(p) : p[k] = "/"}
    IN  IF at = {} THEN 0 ELSE CHOOSE k \in at : \A j \in at : j <= k

\* Path::parent and Path::file_name
ParentPath(p) == IF LastSlash(p) = 0 THEN <<>> ELSE SubSeq(p, 1, LastSlash(p) - 1)
FileName(p) == SubSeq(p, LastSlash(p) + 1, Len(p))

\* Path::join: an absolute argument replaces the base.
Join(base, rel) ==
    IF rel = <<>> THEN base
    ELSE IF Head(rel) = "/" THEN rel
    ELSE base \o <<"/">> \o rel

\* A path and every directory above it.
Ancestors(p) == {p} \cup {SubSeq(p, 1, k - 1) : k \in {j \in 1..Len(p) : p[j] = "/"}}

\* The symbols that are a reference to a variable, and the variable each names.
Refs == {"{{x}}", "{{y}}", "{{z}}", "{{u}}"}
RefVar(t) ==
    CASE t = "{{x}}" -> "x"
      [] t = "{{y}}" -> "y"
      [] t = "{{z}}" -> "z"
      [] t = "{{u}}" -> "u"

\* Tera::one_off(template, context, false): every reference is replaced by the
\* text of the value the context holds; a reference the context lacks is an error.
RECURSIVE Render(_, _)
Render(tpl, ctx) ==
    IF tpl = <<>> THEN [ok |-> TRUE, out |-> <<>>]
    ELSE LET h == Head(tpl)
             r == Render(Tail(tpl), ctx)
         IN  IF ~r.ok THEN [ok |-> FALSE, out |-> <<>>]
             ELSE IF h \in Refs
                  THEN IF RefVar(h) \in DOMAIN ctx
                       THEN [ok |-> TRUE, out |-> <<ctx[RefVar(h)].v>> \o r.out]
                       ELSE [ok |-> FALSE, out |-> <<>>]
                  ELSE [ok |-> TRUE, out |-> <<h>> \o r.out]

\* glob::Pattern::matches_path with the default MatchOptions: "*" matches any
\* run of symbols, separators included; every other symbol matches itself.
RECURSIVE Matches(_, _)
Matches(pat, s) ==
    IF pat = <<>> THEN s = <<>>
    ELSE IF Head(pat) = "*"
         THEN Matches(Tail(pat), s) \/ (s # <<>> /\ Matches(pat, Tail(s)))
         ELSE s # <<>> /\ Head(s) = Head(pat) /\ Matches(Tail(pat), Tail(s))

\* utils::is_binary: the buffer holds a NUL byte.
is_binary(buffer) == "NUL" \in Range(buffer)

\* str::from_utf8(&buffer) is Ok.
ValidUtf8(buffer) == "xFF" \notin Range(buffer)

(***************************************************************************)
(* The filesystem: a function from the paths that exist to what is there.  *)
(* <<>> is the working directory, which always exists.                     *)
(***************************************************************************)
DirNode == [kind |-> "dir", data |-> <<>>]
FileNode(data) == [kind |-> "file", data |-> data]

Exists(f, p) == p \in DOMAIN f
IsDir(f, p) == p \in DOMAIN f /\ f[p].kind = "dir"

\* fs::create_dir_all
CreateDirAll(f, p) ==
    [q \in DOMAIN f \cup Ancestors(p) |-> IF q \in DOMAIN f THEN f[q] ELSE DirNode]

\* utils::create_directory: creates the directory unless the path exists.
create_directory(f, p) == IF Exists(f, p) THEN f ELSE CreateDirAll(f, p)

\* A file can be created at p: its parent is a directory and p is not one.
CanWrite(f, p) == IsDir(f, ParentPath(p)) /\ ~IsDir(f, p)

\* utils::write_file and fs::copy, when they succeed.
WriteFile(f, p, data) == Insert(f, p, FileNode(data))

\* fs::remove_file
RemoveFile(f, p) == [q \in DOMAIN f \ {p} |-> f[q]]

\* fs::remove_dir_all
RemoveDirAll(f, p) ==
    [q \in {r \in DOMAIN f : r # p /\ ~StartsWith(r, p \o <<"/">>)} |-> f[q]]

(***************************************************************************)
(* The template directory and the walk over it                             *)
(***************************************************************************)
\* One entry of the template directory: its path relative to the template
\* root, its kind, its bytes (files) and its place in its directory's listing.
Entry(path, kind, bytes, ord) ==
    [path |-> path, kind |-> kind, bytes |-> bytes, ord |-> ord]

\* self.path, as a path relative to itself, and conf_path.
RootEntry == Entry(<<>>, "dir", <<>>, 0)
ConfPath == <<"template.toml">>

\* output_dir
OutputDir == <<"o">>

\* utils::is_vcs: the entry is a version-control directory.
is_vcs(e) == FileName(e.path) = <<".git">>

Children(t, e) == {c \in t.entries : c.path # <<>> /\ ParentPath(c.path) = e.path}

RECURSIVE SortByOrd(_)
SortByOrd(S) ==
    IF S = {} THEN <<>>
    ELSE LET m == CHOOSE e \in S : \A f \in S : e.ord <= f.ord
         IN  <<m>> \o SortByOrd(S \ {m})

\* A walk that yields the contents of a directory before the directory itself.
RECURSIVE WalkDirContentsFirst(_, _)
RECURSIVE WalkAllContentsFirst(_, _)
WalkDirContentsFirst(t, e) ==
    IF is_vcs(e) THEN <<>>
    ELSE (IF e.kind # "dir" THEN <<>>
          ELSE IF e.path \in t.unreadable THEN <<[ok |-> FALSE, entry |-> e]>>
          ELSE WalkAllContentsFirst(t, SortByOrd(Children(t, e))))
         \o <<[ok |-> TRUE, entry |-> e]>>
WalkAllContentsFirst(t, es) ==
    IF es = <<>> THEN <<>>
    ELSE WalkDirContentsFirst(t, Head(es)) \o WalkAllContentsFirst(t, Tail(es))

\* WalkDir::new(..).into_iter().filter_entry(|e| !is_vcs(e)): the entry, then
\* (for a directory) the walk of each of its children in listing order; a
\* directory that cannot be read yields itself and then an error item; a
\* filtered entry yields nothing and is not descended into.
RECURSIVE WalkDir(_, _)
RECURSIVE WalkAll(_, _)
WalkDir(t, e) ==
    IF is_vcs(e) THEN <<>>
    ELSE <<[ok |-> TRUE, entry |-> e]>>
         \o (IF e.kind # "dir" THEN <<>>
             ELSE IF e.path \in t.unreadable THEN <<[ok |-> FALSE, entry |-> e]>>
             ELSE WalkAll(t, SortByOrd(Children(t, e))))
WalkAll(t, es) ==
    IF es = <<>> THEN <<>>
    ELSE WalkDir(t, Head(es)) \o WalkAll(t, Tail(es))

\* An ignore test that only compares for equality.
IgnoredExactOnly(path_str, ignore) == \E ignored \in ignore : ignored = path_str

\* The loop over definition.ignore: the path equals an entry or starts with it.
Ignored(path_str, ignore) ==
    \E ignored \in ignore : ignored = path_str \/ StartsWith(path_str, ignored)

\* patterns.iter().map(|p| p.matches_path(&real_path)).any(|x| x)
NoRender(patterns, real_path) == \E p \in patterns : Matches(p, real_path)

(***************************************************************************)
(* ask_questions                                                           *)
(***************************************************************************)
\* What the lookup of a variable's only_if condition finds in the answers.
CondLookup(var, vs) ==
    IF ~IsSome(var.only_if) THEN "none"
    ELSE IF Unwrap(var.only_if).name \notin DOMAIN vs THEN "absent"
    ELSE IF vs[Unwrap(var.only_if).name] = Unwrap(var.only_if).value THEN "equal"
    ELSE "differs"

\* A skip test with the comparison turned around.
SkipQuestionInverted(var, vs) ==
    /\ IsSome(var.only_if)
    /\ Unwrap(var.only_if).name \in DOMAIN vs
    /\ vs[Unwrap(var.only_if).name] = Unwrap(var.only_if).value

\* The `continue` of the only_if test: the condition's name has a value and
\* the value is not the condition's.
SkipQuestion(var, vs) ==
    /\ IsSome(var.only_if)
    /\ Unwrap(var.only_if).name \in DOMAIN vs
    /\ vs[Unwrap(var.only_if).name] # Unwrap(var.only_if).value

\* The tags the match on var.default has an arm for.
SupportedTags == {"Boolean", "String", "Integer"}

\* The texts a free-text prompt and a numeric prompt may return.
StringAnswers == {"a", "b"}
IntegerAnswers == {"0", "7"}

\* The values the prompt of a variable may return.
Answers(var) ==
    IF IsSome(var.choices) THEN Range(Unwrap(var.choices))
    ELSE CASE var.default.tag = "Boolean" -> {VBool("true"), VBool("false")}
           [] var.default.tag = "String" -> {VStr(s) : s \in StringAnswers}
           [] var.default.tag = "Integer" -> {VInt(i) : i \in IntegerAnswers}
           [] OTHER -> {}

(***************************************************************************)
(* The cleanup loop                                                        *)
(***************************************************************************)
\* A rule test that forgets to compare the value.
RuleMatchesAnyValue(rule, vs) == rule.name \in DOMAIN vs

\* variables.get(&cleanup.name) is Some(val) and *val == cleanup.value
RuleMatches(rule, vs) == rule.name \in DOMAIN vs /\ vs[rule.name] = rule.value

(***************************************************************************)
(* The order of the blocks of generate                                     *)
(***************************************************************************)
\* An order that runs the cleanup loop before the walk.
PhaseAfterCleanupFirst(p) ==
    CASE p = "start" -> "ask"
      [] p = "ask" -> "cleanup"
      [] p = "cleanup" -> "walk"
      [] p = "walk" -> "done"

\* The questions, then the walk, then the cleanup loop, then Ok(()).
PhaseAfter(p) ==
    CASE p = "start" -> "ask"
      [] p = "ask" -> "walk"
      [] p = "walk" -> "cleanup"
      [] p = "cleanup" -> "done"

(***************************************************************************)
(* Inputs: definitions, template directories and output directories        *)
(***************************************************************************)
\* The name of the variable declared at each position of a definition.
VarNames == <<"x", "y", "z">>

\* The default and choices a variable may declare.
Shapes ==
    { [default |-> VBool("false"), choices |-> None],
      [default |-> VStr("a"), choices |-> None],
      [default |-> VStr("a"), choices |-> Some(<<VStr("a"), VStr("b")>>)],
      [default |-> VInt("0"), choices |-> None],
      [default |-> VFloat("1.5"), choices |-> None] }

\* The only_if a variable may declare.
Conds ==
    { None,
      Some([name |-> "x", value |-> VBool("true")]),
      Some([name |-> "y", value |-> VStr("a")]) }

Variable(name, shape, cond) ==
    [name |-> name, default |-> shape.default, choices |-> shape.choices,
     only_if |-> cond]

\* Every list of at most MaxVars variables with distinct names.
VariableLists ==
    UNION { { [k \in 1..n |-> Variable(VarNames[k], f[k][1], f[k][2])] :
              f \in [1..n -> Shapes \X Conds] } : n \in 0..MaxVars }

CleanupRule(name, value, paths) == [name |-> name, value |-> value, paths |-> paths]

Text == <<"h">>

\* A template directory with nested directories, a version-control directory,
\* names and contents that hold references, and a binary file.
TreeMain ==
    { Entry(ConfPath, "file", <<"[[variables]]">>, 1),
      Entry(<<".git">>, "dir", <<>>, 2),
      Entry(<<".git", "/", "c">>, "file", Text, 1),
      Entry(<<"s">>, "dir", <<>>, 3),
      Entry(<<"s", "/", "f">>, "file", Text, 1),
      Entry(<<"s", "/", "d">>, "dir", <<>>, 2),
      Entry(<<"s", "x">>, "file", Text, 4),
      Entry(<<"{{x}}">>, "dir", <<>>, 5),
      Entry(<<"{{x}}", "/", "m">>, "file", <<"h", "{{x}}">>, 1),
      Entry(<<"a", ".", "p">>, "file", <<"{{x}}">>, 6),
      Entry(<<"D">>, "file", Text, 7),
      Entry(<<"n">>, "file", <<"NUL", "{{x}}">>, 8) }

\* A template directory with a file that is neither binary nor valid UTF-8 and
\* a file whose content refers to a variable no definition declares.
TreeRaw ==
    { Entry(ConfPath, "file", <<"[[variables]]">>, 1),
      Entry(<<"t">>, "file", Text, 2),
      Entry(<<"r">>, "file", <<"xFF">>, 3),
      Entry(<<"k">>, "file", <<"{{u}}">>, 4) }

\* A small template directory, and one without a template.toml.
TreeSmall ==
    { Entry(ConfPath, "file", <<"[[variables]]">>, 1),
      Entry(<<"m">>, "file", <<"h", "{{x}}">>, 2) }
TreeNoConf == { Entry(<<"m">>, "file", Text, 1) }

Templates ==
    { [entries |-> TreeMain, unreadable |-> {}],
      [entries |-> TreeMain, unreadable |-> {<<"s">>}],
      [entries |-> TreeRaw, unreadable |-> {}],
      [entries |-> TreeNoConf, unreadable |-> {}] }

IgnoreLists == { {}, {<<"s">>}, {<<"D">>, <<"s", "/", "d">>} }

PatternLists == { {}, {<<"*", ".", "p">>}, {<<"a", ".", "p">>} }

CleanupLists ==
    { <<>>,
      <<CleanupRule("x", VStr("a"), << <<"D">>, <<"{{x}}">>, <<"q">> >>)>>,
      <<CleanupRule("u", VStr("a"), << <<"D">> >>),
        CleanupRule("x", VBool("false"), << <<"s">>, <<"{{u}}">> >>)>> }

\* The output directory before the run: absent, empty, or left by an earlier run.
OutputStates ==
    { [q \in {<<>>} |-> DirNode],
      [q \in {<<>>, OutputDir} |-> DirNode],
      [q \in {<<>>, OutputDir, OutputDir \o <<"/", "q">>} |->
          IF q = OutputDir \o <<"/", "q">> THEN FileNode(Text) ELSE DirNode] }

\* State of a run of generate that has not started.
Fresh ==
    /\ pc = "start"
    /\ outcome = "running"
    /\ errKind = "none"
    /\ vals = EmptyMap
    /\ vi = 1
    /\ walker = <<>>
    /\ wi = 1
    /\ ci = 1
    /\ cp = 1
    /\ prompted = {}
    /\ condSeen = [k \in 1..Len(definition.variables) |-> "unreached"]
    /\ unsupported = {}
    /\ rootCreated = FALSE
    /\ emitted = {}
    /\ rendered = {}
    /\ decodeFailed = {}
    /\ deleted = {}
    /\ failed = FALSE
    /\ orphan = FALSE

\* Any list of variables, over a small template directory.
InitAsk ==
    /\ \E vs \in VariableLists :
          definition =
              [variables |-> vs, ignore |-> {}, copy_without_render |-> {},
               cleanup |-> <<CleanupRule("x", VBool("true"), << <<"m">> >>)>>]
    /\ template = [entries |-> TreeSmall, unreadable |-> {}]
    /\ fs \in {f \in OutputStates : ~Exists(f, OutputDir)}
    /\ Fresh

\* One variable, over any template directory, ignore list, pattern list,
\* cleanup list and output directory.
InitGen ==
    /\ \E sh \in {s \in Shapes : s.choices = None /\ s.default.tag \in {"Boolean", "String"}},
          ig \in IgnoreLists, pats \in PatternLists, cl \in CleanupLists :
          definition =
              [variables |-> <<Variable("x", sh, None)>>, ignore |-> ig,
               copy_without_render |-> pats, cleanup |-> cl]
    /\ template \in Templates
    /\ fs \in OutputStates
    /\ Fresh

Init == InitAsk \/ InitGen

(***************************************************************************)
(* generate                                                                *)
(***************************************************************************)
inputs == <<definition, template>>
askVars == <<vals, vi, prompted, condSeen, unsupported>>
walkVars == <<walker, wi, emitted, rendered, decodeFailed, orphan>>
cleanVars == <<ci, cp, deleted>>

\* How a step ends: "next" goes on, "dropped" goes on after an error that was
\* discarded, "panic" aborts the process, anything else is the ErrorKind of the
\* Err the step returns.
Ending(res, nextPc) ==
    /\ outcome' = CASE res \in {"next", "dropped"} ->
                         (IF nextPc = "done" THEN "ok" ELSE "running")
                    [] res = "panic" -> "panic"
                    [] OTHER -> "err"
    /\ errKind' = IF res \in {"next", "dropped", "panic"} THEN errKind ELSE res
    /\ failed' = (failed \/ res \notin {"next", "panic"})
    /\ pc' = IF res \in {"next", "dropped"} THEN nextPc ELSE pc

\* Lines 108-114: the template.toml must exist, be read and be parsed.
Start ==
    /\ pc = "start" /\ outcome = "running"
    /\ IF ConfPath \notin {e.path : e \in template.entries}
       THEN Ending("MissingTemplateDefinition", pc)
       ELSE \E res \in {"next", "Io", "InvalidTemplate"} :
               Ending(res, PhaseAfter("start"))
    /\ UNCHANGED <<inputs, fs, askVars, walkVars, cleanVars, rootCreated>>

\* Lines 67-101: one iteration of the loop over def.variables.
AskQuestion ==
    /\ pc = "ask" /\ outcome = "running"
    /\ vi <= Len(definition.variables)
    /\ LET var == definition.variables[vi] IN
       /\ condSeen' = [condSeen EXCEPT ![vi] = CondLookup(var, vals)]
       /\ IF SkipQuestion(var, vals)
          THEN /\ vi' = vi + 1
               /\ Ending("next", pc)
               /\ UNCHANGED <<vals, prompted, unsupported>>
          ELSE IF ~IsSome(var.choices) /\ var.default.tag \notin SupportedTags
          THEN /\ unsupported' = unsupported \cup {vi}
               /\ Ending("panic", pc)
               /\ UNCHANGED <<vals, vi, prompted>>
          ELSE /\ prompted' = prompted \cup {vi}
               /\ unsupported' = unsupported
               /\ \/ \E res \in Answers(var) :
                        /\ vals' = Insert(vals, var.name, res)
                        /\ vi' = vi + 1
                        /\ Ending("next", pc)
                  \/ /\ Ending("Io", pc)
                     /\ UNCHANGED <<vals, vi>>
    /\ UNCHANGED <<inputs, fs, walkVars, cleanVars, rootCreated>>

\* Lines 103-136: ask_questions returns, the output directory is created when
\* it does not exist, and the walker is built.  (The patterns of the model are
\* all valid globs, so Pattern::new(s).unwrap() succeeds.)
PrepareOutput ==
    /\ pc = "ask" /\ outcome = "running"
    /\ vi > Len(definition.variables)
    /\ IF Exists(fs, OutputDir)
       THEN /\ walker' = WalkDir(template, RootEntry)
            /\ Ending("next", PhaseAfter("ask"))
            /\ UNCHANGED <<fs, rootCreated>>
       ELSE \/ /\ fs' = create_directory(fs, OutputDir)
               /\ rootCreated' = TRUE
               /\ walker' = WalkDir(template, RootEntry)
               /\ Ending("next", PhaseAfter("ask"))
            \/ /\ Ending("Io", pc)
               /\ UNCHANGED <<fs, rootCreated, walker>>
    /\ UNCHANGED <<inputs, askVars, wi, emitted, rendered, decodeFailed, orphan,
                   cleanVars>>

\* The effect of one iteration of the walk.
WalkResult(newFs, newEmitted, newRendered, newDecodeFailed, newOrphan, res) ==
    /\ fs' = newFs
    /\ emitted' = newEmitted
    /\ rendered' = newRendered
    /\ decodeFailed' = newDecodeFailed
    /\ orphan' = newOrphan
    /\ wi' = IF res \in {"next", "dropped"} THEN wi + 1 ELSE wi
    /\ Ending(res, pc)

WalkSkip == WalkResult(fs, emitted, rendered, decodeFailed, orphan, "next")
WalkFail(kind) == WalkResult(fs, emitted, rendered, decodeFailed, orphan, kind)

\* Lines 157-160: the entry is a directory.
WalkDirectory(e, real_path) ==
    IF Exists(fs, real_path)
    THEN WalkResult(fs, emitted \cup {e.path}, rendered, decodeFailed, orphan, "next")
    ELSE LET noParent == ~IsDir(fs, ParentPath(real_path))
             blocked == \E a \in Ancestors(real_path) : Exists(fs, a) /\ ~IsDir(fs, a)
         IN  \/ /\ ~blocked
                /\ WalkResult(create_directory(fs, real_path), emitted \cup {e.path},
                              rendered, decodeFailed, orphan \/ noParent, "next")
             \/ WalkResult(fs, emitted, rendered, decodeFailed, orphan \/ noParent, "Io")

\* fs::copy and write_file: data lands at real_path, or the call fails; it
\* always fails when the parent directory is missing.
WalkWrite(e, real_path, data, newRendered) ==
    LET noParent == ~IsDir(fs, ParentPath(real_path)) IN
    \/ /\ CanWrite(fs, real_path)
       /\ WalkResult(WriteFile(fs, real_path, data), emitted \cup {e.path},
                     newRendered, decodeFailed, orphan, "next")
    \/ WalkResult(fs, emitted, newRendered, decodeFailed, orphan \/ noParent, "Io")

\* Lines 163-177: the entry is a file.
WalkFile(e, real_path) ==
    \/ WalkFail("Io")                                  \* File::open, read_to_end
    \/ IF NoRender(definition.copy_without_render, real_path) \/ is_binary(e.bytes)
       THEN WalkWrite(e, real_path, e.bytes, rendered)
       ELSE IF ~ValidUtf8(e.bytes)
       THEN WalkResult(fs, emitted, rendered, decodeFailed \cup {e.path}, orphan,
                       "panic")
       ELSE LET contents == Render(e.bytes, vals) IN
            IF ~contents.ok
            THEN WalkResult(fs, emitted, rendered \cup {e.path}, decodeFailed,
                            orphan, "Tera")
            ELSE WalkWrite(e, real_path, contents.out, rendered \cup {e.path})

\* Lines 136-178: one item of the walker.
WalkStep ==
    /\ pc = "walk" /\ outcome = "running"
    /\ wi <= Len(walker)
    /\ LET item == walker[wi]
           e == item.entry
       IN  IF ~item.ok
           THEN \* filter_map(|e| e.ok()) drops the error
                WalkResult(fs, emitted, rendered, decodeFailed, orphan, "dropped")
           ELSE IF e.path = RootEntry.path \/ e.path = ConfPath
           THEN WalkSkip
           ELSE IF Ignored(e.path, definition.ignore)
           THEN WalkSkip
           ELSE LET tpl == Render(e.path, vals) IN
                IF ~tpl.ok
                THEN WalkFail("Tera")
                ELSE IF e.kind = "dir"
                     THEN WalkDirectory(e, Join(OutputDir, tpl.out))
                     ELSE WalkFile(e, Join(OutputDir, tpl.out))
    /\ UNCHANGED <<inputs, askVars, walker, cleanVars, rootCreated>>

\* Line 178: the walker is exhausted.
EndWalk ==
    /\ pc = "walk" /\ outcome = "running"
    /\ wi > Len(walker)
    /\ Ending("next", PhaseAfter("walk"))
    /\ UNCHANGED <<inputs, fs, askVars, walkVars, cleanVars, rootCreated>>

\* Lines 180-200: one rule that does not apply, or one path of a rule that does.
CleanupStep ==
    /\ pc = "cleanup" /\ outcome = "running"
    /\ ci <= Len(definition.cleanup)
    /\ LET rule == definition.cleanup[ci] IN
       IF ~RuleMatches(rule, vals) \/ cp > Len(rule.paths)
       THEN /\ ci' = ci + 1
            /\ cp' = 1
            /\ Ending("next", pc)
            /\ UNCHANGED <<fs, deleted>>
       ELSE LET actual_path == Render(rule.paths[cp], vals)
                path_to_delete == Join(OutputDir, actual_path.out)
            IN  IF ~actual_path.ok
                THEN /\ Ending("Tera", pc)
                     /\ UNCHANGED <<fs, ci, cp, deleted>>
                ELSE IF ~Exists(fs, path_to_delete)
                THEN /\ cp' = cp + 1
                     /\ Ending("next", pc)
                     /\ UNCHANGED <<fs, ci, deleted>>
                ELSE \/ /\ fs' = IF IsDir(fs, path_to_delete)
                                 THEN RemoveDirAll(fs, path_to_delete)
                                 ELSE RemoveFile(fs, path_to_delete)
                        /\ deleted' = deleted \cup {<<ci, cp>>}
                        /\ cp' = cp + 1
                        /\ ci' = ci
                        /\ Ending("next", pc)
                     \/ /\ Ending("Io", pc)
                        /\ UNCHANGED <<fs, ci, cp, deleted>>
    /\ UNCHANGED <<inputs, askVars, walkVars, rootCreated>>

\* Lines 200-202: the rules are exhausted.
EndCleanup ==
    /\ pc = "cleanup" /\ outcome = "running"
    /\ ci > Len(definition.cleanup)
    /\ Ending("next", PhaseAfter("cleanup"))
    /\ UNCHANGED <<inputs, fs, askVars, walkVars, cleanVars, rootCreated>>

Next ==
    \/ Start
    \/ AskQuestion
    \/ PrepareOutput
    \/ WalkStep
    \/ EndWalk
    \/ CleanupStep
    \/ EndCleanup

Spec == Init /\ [][Next]_vars

(***************************************************************************)
(* Properties                                                              *)
(***************************************************************************)
Variables == definition.variables
Reached == {k \in DOMAIN condSeen : condSeen[k] # "unreached"}

\* C1: a variable whose only_if names a variable that has no answer when the
\* variable is reached is skipped: it is not prompted and its name gets no
\* entry in the answers.
C1_AbsentConditionSkips ==
    \A k \in Reached :
        condSeen[k] = "absent" =>
            /\ k \notin prompted
            /\ Variables[k].name \notin DOMAIN vals

\* C2: a variable whose only_if names a variable whose answer is not the value
\* of the condition is never prompted and its name never gets an entry in the
\* answers.
C2_DifferingConditionSkips ==
    \A k \in Reached :
        condSeen[k] = "differs" =>
            /\ k \notin prompted
            /\ Variables[k].name \notin DOMAIN vals

\* A run returned Ok after skipping a variable whose condition differed, and
\* after prompting for the variable the condition names.
C2_Witness ==
    /\ outcome = "ok"
    /\ \E k \in Reached :
          /\ condSeen[k] = "differs"
          /\ \E j \in prompted : Variables[j].name = Unwrap(Variables[k].only_if).name

\* C3: a variable without choices whose default has a tag other than Boolean,
\* String or Integer ends the run in an UnsupportedVariableType error; the
\* process does not panic.
C3_UnsupportedTypeIsError ==
    unsupported # {} => (outcome = "err" /\ errKind = "UnsupportedVariableType")

\* C4: bytes that are not valid UTF-8 reaching the render step end the run in
\* a BinaryDecodeError; the process does not panic.
C4_NonUtf8IsError ==
    decodeFailed # {} => (outcome = "err" /\ errKind = "BinaryDecodeError")

\* C5: once a step of generate has failed (a failure to read a directory entry
\* during the walk included) the run is over and its outcome is an error.
C5_FailFast == failed => outcome = "err"

\* The destination of a template path relative to the output root.
RelativeDest(e) == Render(e.path, vals)

\* C6: a file that is written and is binary, or whose destination relative to
\* the output root matches a copy_without_render pattern, is not passed through
\* the renderer and its destination holds the bytes of the template file.
C6_CopyVerbatim ==
    \A e \in template.entries :
        (/\ e.kind = "file"
         /\ RelativeDest(e).ok
         /\ \/ is_binary(e.bytes)
            \/ \E p \in definition.copy_without_render :
                  Matches(p, RelativeDest(e).out))
        => /\ e.path \notin rendered
           /\ (e.path \in emitted /\ Exists(fs, Join(OutputDir, RelativeDest(e).out)))
                  => fs[Join(OutputDir, RelativeDest(e).out)] = FileNode(e.bytes)

\* The entries the ignore list covers: the path equals an ignore entry or
\* begins with one.
IgnoredEntries ==
    {e \in template.entries :
        \E ig \in definition.ignore :
            e.path = ig \/ (Len(ig) <= Len(e.path) /\ SubSeq(e.path, 1, Len(ig)) = ig)}

\* C7: for an entry whose relative path equals an ignore entry or begins with
\* one, no output is written and nothing exists at its destination, and the same
\* holds for everything beneath an ignored directory.
C7_IgnoredNeverEmitted ==
    \A e \in IgnoredEntries :
        /\ e.path \notin emitted
        /\ e.path \notin rendered
        /\ RelativeDest(e).ok => ~Exists(fs, Join(OutputDir, RelativeDest(e).out))

\* The walk went past an ignored directory, an entry beneath it and an entry
\* that merely shares its prefix, wrote other entries, and the run returned Ok.
C7_Witness ==
    /\ outcome = "ok"
    /\ emitted # {}
    /\ \E d \in IgnoredEntries, c \in IgnoredEntries, x \in IgnoredEntries :
          /\ d.kind = "dir" /\ ParentPath(c.path) = d.path
          /\ x.path # d.path /\ ParentPath(x.path) = <<>>
          /\ \A y \in {d, c, x} : \E i \in 1..Len(walker) : walker[i].entry = y

\* The rules whose name has an answer equal to the rule's value.
MatchingRules ==
    {r \in 1..Len(definition.cleanup) :
        /\ definition.cleanup[r].name \in DOMAIN vals
        /\ vals[definition.cleanup[r].name] = definition.cleanup[r].value}

\* The cleanup loop is at a path of a matching rule whose target does not exist.
AtMissingTarget ==
    /\ pc = "cleanup" /\ outcome = "running"
    /\ ci \in MatchingRules
    /\ cp <= Len(definition.cleanup[ci].paths)
    /\ Render(definition.cleanup[ci].paths[cp], vals).ok
    /\ ~Exists(fs, Join(OutputDir, Render(definition.cleanup[ci].paths[cp], vals).out))

\* C8: only a rule whose name has an answer equal to the rule's value deletes
\* anything; when generate returns Ok none of the rendered paths of such a rule
\* exists; and a target that does not exist is passed over without an error.
C8_CleanupOnlyMatching ==
    /\ [](/\ \A d \in deleted : d[1] \in MatchingRules
          /\ outcome = "ok" =>
                \A r \in MatchingRules :
                    \A k \in 1..Len(definition.cleanup[r].paths) :
                        LET t == Render(definition.cleanup[r].paths[k], vals)
                        IN  t.ok => ~Exists(fs, Join(OutputDir, t.out)))
    /\ [][AtMissingTarget => (fs' = fs /\ deleted' = deleted /\ outcome' = "running")]_vars

\* A run returned Ok after a matching rule deleted a file the walk had written
\* and a directory, and passed over a target that did not exist.
C8_Witness ==
    /\ outcome = "ok"
    /\ <<"D">> \in emitted
    /\ \E r \in MatchingRules :
          /\ <<r, 1>> \in deleted /\ <<r, 2>> \in deleted /\ <<r, 3>> \notin deleted
          /\ definition.cleanup[r].paths[1] = <<"D">>

\* Something was written to the output directory.
Wrote == rootCreated \/ emitted # {}

\* C9: no prompt is issued once the output root, a directory or a file has
\* been written, and nothing is written once a path has been deleted.
C9_PhasesInOrder ==
    [][/\ prompted' # prompted => (~Wrote /\ deleted = {})
       /\ (rootCreated' # rootCreated \/ emitted' # emitted) => deleted = {}
       /\ deleted' # deleted => prompted' = prompted]_vars

\* A run that prompted, created the output root, wrote entries, deleted a path
\* and returned Ok.
C9_Witness ==
    /\ outcome = "ok"
    /\ prompted # {}
    /\ rootCreated
    /\ emitted # {}
    /\ deleted # {}

\* C10: when an entry is written, the destination of its parent directory has
\* been created: the parent entry was written before it, and no write or
\* directory creation is attempted under a missing parent.
C10_ParentBeforeChild ==
    /\ ~orphan
    /\ \A e \in template.entries :
          (e.path \in emitted /\ ParentPath(e.path) # <<>>)
              => ParentPath(e.path) \in emitted

\* A file and a directory beneath written directories were written.
C10_Witness ==
    /\ outcome = "ok"
    /\ \E e \in template.entries :
          e.kind = "file" /\ e.path \in emitted /\ ParentPath(e.path) \in emitted
    /\ \E e \in template.entries :
          e.kind = "dir" /\ e.path \in emitted /\ ParentPath(e.path) \in emitted

====
